---- MODULE Spec2Model ----
(***************************************************************************)
(* A model of the JSON validation utility of the editor-ui package:        *)
(*   packages/frontend/editor-ui/src/utils/json-parser.ts                  *)
(* (validateJson, validateJsonFile, createErrorSummary and their helpers)  *)
(* together with the two libraries it drives, as far as the utility        *)
(* observes them: the tolerant parser jsonc-parser (parseTree,             *)
(* getNodeValue, printParseErrorCode) and the schema engine zod v3         *)
(* (ZodObject, ZodArray, ZodUnion, ZodOptional, refinements, ZodError).    *)
(*                                                                         *)
(* Texts and messages are sequences of one-character strings, so that      *)
(* offsets, slices, escapes, case folding and substring tests are          *)
(* computed, not assumed.  Offsets are 0-based as in the source; the       *)
(* helpers below translate to the 1-based sequences of TLA+.               *)
(***************************************************************************)
EXTENDS Integers, Sequences, FiniteSets, TLC

(***************************************************************************)
(* Strings as character sequences.                                         *)
(***************************************************************************)

\* text.slice(from, to) for 0 <= from <= to <= text.length
Slice(text, from, to) == SubSeq(text, from + 1, to)

\* text.charAt(pos), 0-based
CharAt(text, pos) == text[pos + 1]

RECURSIVE Join(_, _)
\* parts.join(sep): parts is a sequence of strings
Join(parts, sep) ==
  IF Len(parts) = 0 THEN <<>>
  ELSE IF Len(parts) = 1 THEN parts[1]
  ELSE parts[1] \o sep \o Join(Tail(parts), sep)

UpperToLower ==
  [c \in {"A","B","C","D","E","F","G","H","I","J","K","L","M",
          "N","O","P","Q","R","S","T","U","V","W","X","Y","Z"} |->
     CASE c = "A" -> "a" [] c = "B" -> "b" [] c = "C" -> "c" [] c = "D" -> "d"
       [] c = "E" -> "e" [] c = "F" -> "f" [] c = "G" -> "g" [] c = "H" -> "h"
       [] c = "I" -> "i" [] c = "J" -> "j" [] c = "K" -> "k" [] c = "L" -> "l"
       [] c = "M" -> "m" [] c = "N" -> "n" [] c = "O" -> "o" [] c = "P" -> "p"
       [] c = "Q" -> "q" [] c = "R" -> "r" [] c = "S" -> "s" [] c = "T" -> "t"
       [] c = "U" -> "u" [] c = "V" -> "v" [] c = "W" -> "w" [] c = "X" -> "x"
       [] c = "Y" -> "y" [] c = "Z" -> "z"]

\* String.prototype.toLowerCase
ToLowerCase(s) ==
  [i \in 1..Len(s) |-> IF s[i] \in DOMAIN UpperToLower THEN UpperToLower[s[i]] ELSE s[i]]

\* String.prototype.includes
Includes(s, sub) ==
  \E i \in 0..(Len(s) - Len(sub)) : Slice(s, i, i + Len(sub)) = sub

RECURSIVE ReplaceChar(_, _, _)
\* s.replace(/c/g, by) for a one-character pattern c
ReplaceChar(s, c, by) ==
  IF Len(s) = 0 THEN <<>>
  ELSE (IF Head(s) = c THEN by ELSE <<Head(s)>>) \o ReplaceChar(Tail(s), c, by)

DigitChars == <<"0","1","2","3","4","5","6","7","8","9">>

RECURSIVE NatToString(_)
\* String(n) for a non-negative integer n
NatToString(n) ==
  IF n < 10 THEN <<DigitChars[n + 1]>>
  ELSE NatToString(n \div 10) \o <<DigitChars[(n % 10) + 1]>>

(***************************************************************************)
(* positionFromOffset: offset -> 1-based (line, column), (0,0) when the    *)
(* offset is out of range.                                                 *)
(***************************************************************************)

RECURSIVE SplitLines(_, _)
\* s.split(/\r?\n/): the pieces between line terminators; cur is the piece
\* being read.  A "\r" directly before "\n" belongs to the terminator.
SplitLines(s, cur) ==
  IF Len(s) = 0 THEN <<cur>>
  ELSE IF Head(s) = "\n" THEN <<cur>> \o SplitLines(Tail(s), <<>>)
  ELSE IF Head(s) = "\r" /\ Len(s) >= 2 /\ s[2] = "\n"
    THEN <<cur>> \o SplitLines(Tail(Tail(s)), <<>>)
  ELSE SplitLines(Tail(s), Append(cur, Head(s)))

positionFromOffset(text, offset) ==
  IF offset < 0 \/ offset > Len(text) THEN [line |-> 0, column |-> 0]
  ELSE LET lines == SplitLines(Slice(text, 0, offset), <<>>)
       IN  [line |-> Len(lines), column |-> Len(lines[Len(lines)]) + 1]

(***************************************************************************)
(* pathToPointer: a path of keys (strings) and indices (numbers) -> JSON   *)
(* Pointer.  A path segment is [k |-> "key", v |-> chars] or               *)
(* [k |-> "index", v |-> n]; String(segment) is SegToString.               *)
(***************************************************************************)

SegToString(seg) == IF seg.k = "index" THEN NatToString(seg.v) ELSE seg.v

EscapePointer(p) == ReplaceChar(ReplaceChar(p, "~", <<"~","0">>), "/", <<"~","1">>)

pathToPointer(path) ==
  IF Len(path) = 0 THEN <<>>
  ELSE <<"/">> \o Join([i \in 1..Len(path) |-> EscapePointer(SegToString(path[i]))], <<"/">>)

(***************************************************************************)
(* jsonc-parser as the utility uses it (json-parser.ts line 238):          *)
(* parseTree(text, errors) scans and parses tolerantly, pushes one         *)
(* ParseError {error, offset, length} per deviation and returns the tree,  *)
(* or undefined when no value could be read.  A tree node is               *)
(* {type, offset, length, children, value}; the children of an 'object'    *)
(* node are 'property' nodes, each with the children <<key, value>> (the   *)
(* key a 'string' node); the children of an 'array' node are its items.    *)
(* Modelled: the punctuation, strings with the escapes of EscapeValue,     *)
(* unsigned integers, true/false/null, blanks and line breaks, line        *)
(* comments.  The input texts use nothing else.                            *)
(***************************************************************************)

Undefined == [type |-> "undefined"]

WhiteSpace == {" ", "\t"}
LineBreak == {"\n", "\r"}
Punctuation == {"{", "}", "[", "]", ":", ",", "\"", "/"}
Digits == {"0","1","2","3","4","5","6","7","8","9"}

\* the character an escape sequence \c stands for
EscapeValue ==
  [c \in {"\"", "\\", "/", "n", "r", "t"} |->
     CASE c = "n" -> "\n" [] c = "r" -> "\r" [] c = "t" -> "\t" [] OTHER -> c]

RECURSIVE ScanWhile(_, _, _)
ScanWhile(text, pos, set) ==
  IF pos < Len(text) /\ CharAt(text, pos) \in set
    THEN ScanWhile(text, pos + 1, set) ELSE pos

RECURSIVE ScanUnknownContent(_, _)
ScanUnknownContent(text, pos) ==
  IF pos < Len(text) /\ CharAt(text, pos) \notin (WhiteSpace \cup LineBreak \cup Punctuation)
    THEN ScanUnknownContent(text, pos + 1) ELSE pos

RECURSIVE ScanLineComment(_, _)
ScanLineComment(text, pos) ==
  IF pos < Len(text) /\ CharAt(text, pos) \notin LineBreak
    THEN ScanLineComment(text, pos + 1) ELSE pos

RECURSIVE SkipTrivia(_, _)
\* blanks, line breaks and line comments are trivia: read and dropped
SkipTrivia(text, pos) ==
  IF pos >= Len(text) THEN pos
  ELSE IF CharAt(text, pos) \in (WhiteSpace \cup LineBreak) THEN SkipTrivia(text, pos + 1)
  ELSE IF CharAt(text, pos) = "/" /\ pos + 1 < Len(text) /\ CharAt(text, pos + 1) = "/"
    THEN SkipTrivia(text, ScanLineComment(text, pos + 2))
  ELSE pos

RECURSIVE ScanString(_, _, _, _)
\* the scanner's scanString, from the character after the opening quote
ScanString(text, pos, value, err) ==
  IF pos >= Len(text) THEN [pos |-> pos, value |-> value, err |-> "UnexpectedEndOfString"]
  ELSE LET ch == CharAt(text, pos) IN
    IF ch = "\"" THEN [pos |-> pos + 1, value |-> value, err |-> err]
    ELSE IF ch = "\\" THEN
      IF pos + 1 >= Len(text)
        THEN [pos |-> pos + 1, value |-> value, err |-> "UnexpectedEndOfString"]
      ELSE LET ch2 == CharAt(text, pos + 1) IN
        IF ch2 \in DOMAIN EscapeValue
          THEN ScanString(text, pos + 2, Append(value, EscapeValue[ch2]), err)
          ELSE ScanString(text, pos + 2, value, "InvalidEscapeCharacter")
    ELSE IF ch \in LineBreak
      THEN [pos |-> pos, value |-> value, err |-> "UnexpectedEndOfString"]
    ELSE IF ch = "\t" THEN ScanString(text, pos + 1, Append(value, ch), "InvalidCharacter")
    ELSE ScanString(text, pos + 1, Append(value, ch), err)

Token(kind, offset, length, value, err) ==
  [kind |-> kind, offset |-> offset, length |-> length, value |-> value, err |-> err]

PunctuationKind(ch) ==
  CASE ch = "{" -> "OpenBrace" [] ch = "}" -> "CloseBrace"
    [] ch = "[" -> "OpenBracket" [] ch = "]" -> "CloseBracket"
    [] ch = ":" -> "Colon" [] ch = "," -> "Comma"

\* the scanner's scan(), for pos at a character that is not trivia
Scan(text, pos) ==
  IF pos >= Len(text) THEN Token("EOF", Len(text), 0, <<>>, "None")
  ELSE LET ch == CharAt(text, pos) IN
    IF ch \in {"{", "}", "[", "]", ":", ","} THEN Token(PunctuationKind(ch), pos, 1, <<ch>>, "None")
    ELSE IF ch = "\"" THEN
      LET r == ScanString(text, pos + 1, <<>>, "None")
      IN  Token("String", pos, r.pos - pos, r.value, r.err)
    ELSE IF ch = "/" THEN Token("Unknown", pos, 1, <<ch>>, "None")
    ELSE IF ch \in Digits THEN
      LET end == IF ch = "0" THEN pos + 1 ELSE ScanWhile(text, pos + 1, Digits)
      IN  Token("Number", pos, end - pos, Slice(text, pos, end), "None")
    ELSE
      LET end == ScanUnknownContent(text, pos)
          word == Slice(text, pos, end)
      IN  Token(CASE word = <<"t","r","u","e">> -> "True"
                  [] word = <<"f","a","l","s","e">> -> "False"
                  [] word = <<"n","u","l","l">> -> "Null"
                  [] OTHER -> "Unknown",
                pos, end - pos, word, "None")

ParseError(error, tok) == [error |-> error, offset |-> tok.offset, length |-> tok.length]

RECURSIVE ScanNext(_, _, _)
RECURSIVE ReportToken(_, _, _)

\* the parser's scanNext() once the scanner has produced tok: a scan error
\* and an unknown token are reported (onError) where they are met, and an
\* unknown token is skipped.  The result is the parser state {tok, errs}.
ReportToken(text, tok, errs) ==
  IF tok.kind = "Unknown"
    THEN ScanNext(text, tok.offset + tok.length, Append(errs, ParseError("InvalidSymbol", tok)))
    ELSE [tok |-> tok,
          errs |-> IF tok.err # "None" THEN Append(errs, ParseError(tok.err, tok)) ELSE errs]

\* the parser's scanNext(): the next token that is not trivia, from
\* position pos on
ScanNext(text, pos, errs) == ReportToken(text, Scan(text, SkipTrivia(text, pos)), errs)

Advance(text, s) == ScanNext(text, s.tok.offset + s.tok.length, s.errs)

RECURSIVE SkipTokens(_, _, _, _)
RECURSIVE SkipFrom(_, _, _, _, _)

\* one turn of the skipping loop of handleError: s is the state at the
\* current token and next the state after it
SkipFrom(text, s, next, skipUntilAfter, skipUntil) ==
  IF s.tok.kind = "EOF" THEN s
  ELSE IF s.tok.kind \in skipUntilAfter THEN next
  ELSE IF s.tok.kind \in skipUntil THEN s
  ELSE SkipTokens(text, next, skipUntilAfter, skipUntil)

SkipTokens(text, s, skipUntilAfter, skipUntil) ==
  SkipFrom(text, s, Advance(text, s), skipUntilAfter, skipUntil)

\* the parser's handleError(error, skipUntilAfter, skipUntil)
HandleError(text, s, error, skipUntilAfter, skipUntil) ==
  IF skipUntilAfter \cup skipUntil = {}
    THEN [s EXCEPT !.errs = Append(s.errs, ParseError(error, s.tok))]
    ELSE SkipTokens(text, [s EXCEPT !.errs = Append(s.errs, ParseError(error, s.tok))],
                    skipUntilAfter, skipUntil)

Node(type, offset, length, children, value) ==
  [type |-> type, offset |-> offset, length |-> length, children |-> children, value |-> value]

LiteralType(kind) ==
  CASE kind = "String" -> "string" [] kind = "Number" -> "number"
    [] kind = "Null" -> "null" [] OTHER -> "boolean"

RECURSIVE ParseValue(_, _)
RECURSIVE ParseProperty(_, _)
RECURSIVE PropertyAfterKey(_, _, _)
RECURSIVE ParseObjectLoop(_, _, _, _)
RECURSIVE ObjectStep(_, _, _)
RECURSIVE ParseArrayLoop(_, _, _, _)
RECURSIVE ArrayStep(_, _, _)

\* parseProperty() after the value: r is what parseValue() returned
PropertyWithValue(text, key, r) ==
  IF r.ok
    THEN [s |-> r.s, ok |-> TRUE,
          node |-> Node("property", key.offset,
                        r.node.offset + r.node.length - key.offset,
                        <<key, r.node>>, <<>>)]
    ELSE [s |-> HandleError(text, r.s, "ValueExpected", {}, {"CloseBrace", "Comma"}),
          ok |-> TRUE,
          node |-> Node("property", key.offset, key.length, <<key>>, <<>>)]

\* parseProperty() after the key: s1 is the state at the token after it
PropertyAfterKey(text, key, s1) ==
  IF s1.tok.kind = "Colon"
    THEN PropertyWithValue(text, key, ParseValue(text, Advance(text, s1)))
    ELSE [s |-> HandleError(text, s1, "ColonExpected", {}, {"CloseBrace", "Comma"}),
          ok |-> TRUE,
          node |-> Node("property", key.offset, key.length, <<key>>, <<>>)]

\* parseProperty(): {s, ok, node}
ParseProperty(text, s) ==
  IF s.tok.kind # "String"
    THEN [s |-> HandleError(text, s, "PropertyNameExpected", {}, {"CloseBrace", "Comma"}),
          ok |-> FALSE, node |-> Undefined]
    ELSE PropertyAfterKey(text,
                          Node("string", s.tok.offset, s.tok.length, <<>>, s.tok.value),
                          Advance(text, s))

\* the head of a turn of the loops of parseObject() and parseArray(): the
\* comma before an element is read, a missing or a leading one reported
ElementStart(text, s, needsComma) ==
  IF s.tok.kind = "Comma"
    THEN Advance(text, IF needsComma THEN s
                       ELSE HandleError(text, s, "ValueExpected", {}, {}))
  ELSE IF needsComma THEN HandleError(text, s, "CommaExpected", {}, {})
  ELSE s

\* the rest of a turn of the loop of parseObject(): r is what
\* parseProperty() returned
ObjectStep(text, r, children) ==
  IF r.ok
    THEN ParseObjectLoop(text, r.s, TRUE, Append(children, r.node))
    ELSE ParseObjectLoop(text,
           HandleError(text, r.s, "ValueExpected", {}, {"CloseBrace", "Comma"}),
           TRUE, children)

\* the loop of parseObject(): {s, children}
ParseObjectLoop(text, s, needsComma, children) ==
  IF s.tok.kind \in {"CloseBrace", "EOF"} THEN [s |-> s, children |-> children]
  ELSE ObjectStep(text, ParseProperty(text, ElementStart(text, s, needsComma)), children)

\* the rest of a turn of the loop of parseArray(): r is what parseValue()
\* returned
ArrayStep(text, r, children) ==
  IF r.ok
    THEN ParseArrayLoop(text, r.s, TRUE, Append(children, r.node))
    ELSE ParseArrayLoop(text,
           HandleError(text, r.s, "ValueExpected", {}, {"CloseBracket", "Comma"}),
           TRUE, children)

\* the loop of parseArray(): {s, children}
ParseArrayLoop(text, s, needsComma, children) ==
  IF s.tok.kind \in {"CloseBracket", "EOF"} THEN [s |-> s, children |-> children]
  ELSE ArrayStep(text, ParseValue(text, ElementStart(text, s, needsComma)), children)

\* the end of parseObject() and parseArray(): r is what the loop returned,
\* close the token that ends the container
CloseContainer(text, s, r, type, close, error) ==
  [s |-> IF r.s.tok.kind = close THEN Advance(text, r.s)
         ELSE HandleError(text, r.s, error, {close}, {}),
   ok |-> TRUE,
   node |-> Node(type, s.tok.offset, r.s.tok.offset + r.s.tok.length - s.tok.offset,
                 r.children, <<>>)]

\* parseValue(): {s, ok, node}
ParseValue(text, s) ==
  IF s.tok.kind = "OpenBrace" THEN
    CloseContainer(text, s, ParseObjectLoop(text, Advance(text, s), FALSE, <<>>),
                   "object", "CloseBrace", "CloseBraceExpected")
  ELSE IF s.tok.kind = "OpenBracket" THEN
    CloseContainer(text, s, ParseArrayLoop(text, Advance(text, s), FALSE, <<>>),
                   "array", "CloseBracket", "CloseBracketExpected")
  ELSE IF s.tok.kind \in {"String", "Number", "True", "False", "Null"} THEN
    [s |-> Advance(text, s), ok |-> TRUE,
     node |-> Node(LiteralType(s.tok.kind), s.tok.offset, s.tok.length, <<>>, s.tok.value)]
  ELSE [s |-> s, ok |-> FALSE, node |-> Undefined]

\* the end of parseTree(): r is what parseValue() returned for the root
ParseRoot(text, r) ==
  IF ~r.ok
    THEN [tree |-> Undefined,
          errors |-> HandleError(text, r.s, "ValueExpected", {}, {}).errs]
  ELSE IF r.s.tok.kind # "EOF"
    THEN [tree |-> r.node,
          errors |-> HandleError(text, r.s, "EndOfFileExpected", {}, {}).errs]
  ELSE [tree |-> r.node, errors |-> r.s.errs]

\* parseTree() from the first token on
ParseFrom(text, s0) ==
  IF s0.tok.kind = "EOF"
    THEN [tree |-> Undefined, errors |-> HandleError(text, s0, "ValueExpected", {}, {}).errs]
    ELSE ParseRoot(text, ParseValue(text, s0))

\* parseTree(text, errors): {tree, errors}
parseTree(text) == ParseFrom(text, ScanNext(text, 0, <<>>))

\* getNodeValue(node): the plain value of a tree, positions dropped.  An
\* object is {t, props}: its keys in insertion order, each once, with the
\* value of the key's last occurrence (obj[key] = value, in document order).
RECURSIVE getNodeValue(_)
RECURSIVE ObjectProps(_, _, _)
ObjectProps(children, i, props) ==
  IF i > Len(children) THEN props
  ELSE IF Len(children[i].children) < 2 THEN ObjectProps(children, i + 1, props)
  ELSE
    LET key   == children[i].children[1].value
        value == getNodeValue(children[i].children[2])
    IN  IF \E j \in 1..Len(props) : props[j].key = key
          THEN ObjectProps(children, i + 1,
                 [j \in 1..Len(props) |->
                    IF props[j].key = key THEN [key |-> key, value |-> value] ELSE props[j]])
          ELSE ObjectProps(children, i + 1, Append(props, [key |-> key, value |-> value]))

getNodeValue(node) ==
  IF node.type = "array"
    THEN [t |-> "array", items |-> [i \in 1..Len(node.children) |-> getNodeValue(node.children[i])]]
  ELSE IF node.type = "object"
    THEN [t |-> "object", props |-> ObjectProps(node.children, 1, <<>>)]
  ELSE [t |-> node.type, v |-> node.value]

\* printParseErrorCode(code): the name of the code
printParseErrorCode(code) ==
  CASE code = "InvalidSymbol" -> <<"I","n","v","a","l","i","d","S","y","m","b","o","l">>
    [] code = "PropertyNameExpected" -> <<"P","r","o","p","e","r","t","y","N","a","m","e","E","x","p","e","c","t","e","d">>
    [] code = "ValueExpected" -> <<"V","a","l","u","e","E","x","p","e","c","t","e","d">>
    [] code = "ColonExpected" -> <<"C","o","l","o","n","E","x","p","e","c","t","e","d">>
    [] code = "CommaExpected" -> <<"C","o","m","m","a","E","x","p","e","c","t","e","d">>
    [] code = "CloseBraceExpected" -> <<"C","l","o","s","e","B","r","a","c","e","E","x","p","e","c","t","e","d">>
    [] code = "CloseBracketExpected" -> <<"C","l","o","s","e","B","r","a","c","k","e","t","E","x","p","e","c","t","e","d">>
    [] code = "EndOfFileExpected" -> <<"E","n","d","O","f","F","i","l","e","E","x","p","e","c","t","e","d">>
    [] code = "UnexpectedEndOfString" -> <<"U","n","e","x","p","e","c","t","e","d","E","n","d","O","f","S","t","r","i","n","g">>
    [] code = "InvalidEscapeCharacter" -> <<"I","n","v","a","l","i","d","E","s","c","a","p","e","C","h","a","r","a","c","t","e","r">>
    [] code = "InvalidCharacter" -> <<"I","n","v","a","l","i","d","C","h","a","r","a","c","t","e","r">>
    [] OTHER -> <<"<","u","n","k","n","o","w","n"," ","P","a","r","s","e","E","r","r","o","r","C","o","d","e",">">>

(***************************************************************************)
(* buildPointerMap: JSON Pointer -> {offset}, as a function whose domain   *)
(* is the set of pointers recorded.                                        *)
(***************************************************************************)

EmptyMap == [p \in {} |-> [offset |-> 0]]

\* Object.assign(target, source): the entries of source win
ObjectAssign(target, source) == source @@ target

RECURSIVE buildPointerMap(_, _, _)
RECURSIVE ObjectEntries(_, _, _, _, _)
RECURSIVE ArrayEntries(_, _, _, _, _)

\* the loop over an object node's children, two at a time (i is 0-based)
ObjectEntries(children, i, text, pointer, map) ==
  IF i >= Len(children) THEN map
  ELSE IF i + 1 >= Len(children) THEN ObjectEntries(children, i + 2, text, pointer, map)
  ELSE
    LET keyNode   == children[i + 1]
        valueNode == children[i + 2]
        keyStart  == keyNode.offset + 1
        keyEnd    == keyNode.offset + keyNode.length - 1
    IN  IF keyStart >= 0 /\ keyEnd <= Len(text) /\ keyStart <= keyEnd
          THEN LET key          == Slice(text, keyStart, keyEnd)
                   childPointer == pointer \o <<"/">> \o EscapePointer(key)
               IN  ObjectEntries(children, i + 2, text, pointer,
                     ObjectAssign(map, buildPointerMap(valueNode, text, childPointer)))
          ELSE ObjectEntries(children, i + 2, text, pointer, map)

\* the forEach over an array node's children (index is 0-based)
ArrayEntries(children, index, text, pointer, map) ==
  IF index >= Len(children) THEN map
  ELSE ArrayEntries(children, index + 1, text, pointer,
         ObjectAssign(map, buildPointerMap(children[index + 1], text,
                                           pointer \o <<"/">> \o NatToString(index))))

buildPointerMap(node, text, pointer) ==
  IF node.type = "undefined" THEN EmptyMap
  ELSE
    LET map0 == (pointer :> [offset |-> node.offset])
        map1 == IF node.type = "object"
                  THEN ObjectEntries(node.children, 0, text, pointer, map0) ELSE map0
    IN  IF node.type = "array"
          THEN ArrayEntries(node.children, 0, text, pointer, map1) ELSE map1

(***************************************************************************)
(* zod v3 as the utility uses it.  Schemas live in a heap, because         *)
(* deepStrict works on object identities: heap.nodes[r] is the schema      *)
(* object r, heap.shapes[h] the shape object h (the plain object a         *)
(* ZodObject's _def.shape() returns).  Schema objects:                     *)
(*   [kind |-> "object", shape |-> h, unknownKeys |-> strip|passthrough|   *)
(*    strict]                    z.object(..) [.passthrough() | .strict()] *)
(*   [kind |-> "array", type |-> r]                          z.array(r)    *)
(*   [kind |-> "optional", inner |-> r]                      r.optional()  *)
(*   [kind |-> "union", options |-> <<r, ..>>]               z.union([..]) *)
(*   [kind |-> "lazy", target |-> r]                         z.lazy(() => r)*)
(*   [kind |-> "record", valueType |-> r]                    z.record(r)   *)
(*   [kind |-> "effects", inner |-> r]   r.superRefine(fixedCollection)    *)
(*   [kind |-> "string" | "number" | "boolean" | "null" | "undefined"]     *)
(* A shape object is [keys |-> <<k, ..>>, child |-> [k |-> r]].            *)
(***************************************************************************)

UndefinedValue == [t |-> "undefined"]

\* data[key]
Lookup(value, key) ==
  IF \E j \in 1..Len(value.props) : value.props[j].key = key
    THEN value.props[CHOOSE j \in 1..Len(value.props) : value.props[j].key = key].value
    ELSE UndefinedValue

HasKey(value, key) == \E j \in 1..Len(value.props) : value.props[j].key = key

TypeChars(t) ==
  CASE t = "string" -> <<"s","t","r","i","n","g">> [] t = "number" -> <<"n","u","m","b","e","r">>
    [] t = "boolean" -> <<"b","o","o","l","e","a","n">> [] t = "null" -> <<"n","u","l","l">>
    [] t = "undefined" -> <<"u","n","d","e","f","i","n","e","d">> [] t = "array" -> <<"a","r","r","a","y">>
    [] t = "object" -> <<"o","b","j","e","c","t">>

Issue(code, path, message, fields, expected, received, keys, unionErrors) ==
  [code |-> code, path |-> path, message |-> message, fields |-> fields,
   expected |-> expected, received |-> received, keys |-> keys,
   unionErrors |-> unionErrors]

\* the default error map: invalid_type
InvalidType(expected, received, path) ==
  Issue("invalid_type", path,
        IF received = "undefined" THEN <<"R","e","q","u","i","r","e","d">>
        ELSE <<"E","x","p","e","c","t","e","d"," ">> \o TypeChars(expected) \o <<","," ","r","e","c","e","i","v","e","d"," ">> \o TypeChars(received),
        {"expected", "received"}, expected, received, <<>>, <<>>)

\* the default error map: unrecognized_keys; util.joinValues(keys, ", ")
UnrecognizedKeys(keys, path) ==
  Issue("unrecognized_keys", path,
        <<"U","n","r","e","c","o","g","n","i","z","e","d"," ","k","e","y","(","s",")"," ","i","n"," ","o","b","j","e","c","t",":"," ">>
          \o Join([i \in 1..Len(keys) |-> <<"'">> \o keys[i] \o <<"'">>], <<",", " ">>),
        {"keys"}, "", "", keys, <<>>)

\* the default error map: invalid_union
InvalidUnion(unionErrors, path) ==
  Issue("invalid_union", path, <<"I","n","v","a","l","i","d"," ","i","n","p","u","t">>, {"unionErrors"}, "", "", <<>>, unionErrors)

CustomIssue(message, path) == Issue("custom", path, message, {}, "", "", <<>>, <<>>)

Key(k) == [k |-> "key", v |-> k]
Index(i) == [k |-> "index", v |-> i]

\* ParseStatus: any part aborted -> aborted, else any dirty -> dirty
MergeStatus(a, b) ==
  IF a = "aborted" \/ b = "aborted" THEN "aborted"
  ELSE IF a = "dirty" \/ b = "dirty" THEN "dirty" ELSE "valid"

Parsed(status, issues) == [status |-> status, issues |-> issues]

\* !isNaN(Number(k)) for the keys of the documents: all digits
IsNumericKey(k) == \A i \in 1..Len(k) : k[i] \in Digits

\* the superRefine callback of NodeParametersSchema: the issues it adds
RECURSIVE FixedCollectionIssues(_, _, _, _)
FixedCollectionIssues(params, i, j, path) ==
  IF i > Len(params.props) THEN <<>>
  ELSE
    LET key == params.props[i].key
        obj == params.props[i].value
    IN  IF obj.t # "object" \/ j > Len(obj.props)
          THEN FixedCollectionIssues(params, i + 1, 1, path)
        ELSE
          LET nestedKey   == obj.props[j].key
              nestedValue == obj.props[j].value
              hit == /\ nestedValue.t = "object"
                     /\ ~HasKey(nestedValue, <<"_","_","r","l">>)
                     /\ Len(nestedValue.props) > 0
                     /\ \A n \in 1..Len(nestedValue.props) : IsNumericKey(nestedValue.props[n].key)
          IN  (IF hit
                 THEN <<CustomIssue(
                          <<"P","a","r","a","m","e","t","e","r"," ","\"">> \o key \o <<".">> \o nestedKey \o
                          <<"\""," ","a","p","p","e","a","r","s"," ","t","o"," ","b","e"," ","a","n"," ","o","b","j","e","c","t"," ","w","i","t","h"," ","n","u","m","e","r","i","c"," ","k","e","y","s"," ","b","u","t"," ","s","h","o","u","l","d"," ","b","e"," ","a","n"," ","a","r","r","a","y","."," ","E","x","p","e","c","t","e","d"," ","a","r","r","a","y"," ","f","o","r","m","a","t"," ","f","o","r"," ","f","i","x","e","d","C","o","l","l","e","c","t","i","o","n"," ","p","a","r","a","m","e","t","e","r","s",".">>,
                          path \o <<Key(key), Key(nestedKey)>>)>>
                 ELSE <<>>)
              \o FixedCollectionIssues(params, i, j + 1, path)

RECURSIVE Evaluate(_, _, _, _)
RECURSIVE EvalFields(_, _, _, _, _)
RECURSIVE EvalItems(_, _, _, _, _)
RECURSIVE EvalRecord(_, _, _, _, _)
RECURSIVE EvalUnion(_, _, _, _, _, _, _)

\* ZodObject._parse: the declared keys, in shape order
EvalFields(heap, shape, value, path, i) ==
  IF i > Len(shape.keys) THEN Parsed("valid", <<>>)
  ELSE
    LET key  == shape.keys[i]
        r    == Evaluate(heap, shape.child[key], Lookup(value, key), Append(path, Key(key)))
        rest == EvalFields(heap, shape, value, path, i + 1)
    IN  Parsed(MergeStatus(r.status, rest.status), r.issues \o rest.issues)

\* ZodArray._parse: the items, in order
EvalItems(heap, type, items, path, i) ==
  IF i > Len(items) THEN Parsed("valid", <<>>)
  ELSE
    LET r    == Evaluate(heap, type, items[i], Append(path, Index(i - 1)))
        rest == EvalItems(heap, type, items, path, i + 1)
    IN  Parsed(MergeStatus(r.status, rest.status), r.issues \o rest.issues)

\* ZodRecord._parse: every key of the data
EvalRecord(heap, valueType, props, path, i) ==
  IF i > Len(props) THEN Parsed("valid", <<>>)
  ELSE
    LET r    == Evaluate(heap, valueType, props[i].value, Append(path, Key(props[i].key)))
        rest == EvalRecord(heap, valueType, props, path, i + 1)
    IN  Parsed(MergeStatus(r.status, rest.status), r.issues \o rest.issues)

\* ZodUnion._parse: the first valid option wins; else the first dirty option's
\* issues; else one invalid_union issue holding every option's issues
EvalUnion(heap, options, value, path, i, collected, dirty) ==
  IF i > Len(options)
    THEN IF Len(dirty) > 0 THEN Parsed("dirty", dirty[1])
         ELSE Parsed("aborted", <<InvalidUnion(collected, path)>>)
  ELSE
    LET r == Evaluate(heap, options[i], value, path)
    IN  IF r.status = "valid" THEN Parsed("valid", <<>>)
        ELSE EvalUnion(heap, options, value, path, i + 1,
               IF Len(r.issues) > 0 THEN Append(collected, r.issues) ELSE collected,
               IF r.status = "dirty" /\ Len(dirty) = 0 THEN <<r.issues>> ELSE dirty)

\* schema._parse(value) at path: {status, issues}
Evaluate(heap, ref, value, path) ==
  LET node == heap.nodes[ref] IN
  CASE node.kind = "object" ->
         IF value.t # "object" THEN Parsed("aborted", <<InvalidType("object", value.t, path)>>)
         ELSE
           LET shape     == heap.shapes[node.shape]
               fields    == EvalFields(heap, shape, value, path, 1)
               dataKeys  == [j \in 1..Len(value.props) |-> value.props[j].key]
               extraKeys == SelectSeq(dataKeys,
                              LAMBDA k : \A n \in 1..Len(shape.keys) : shape.keys[n] # k)
           IN  IF node.unknownKeys = "strict" /\ Len(extraKeys) > 0
                 THEN Parsed(MergeStatus(fields.status, "dirty"),
                             Append(fields.issues, UnrecognizedKeys(extraKeys, path)))
                 ELSE fields
    [] node.kind = "array" ->
         IF value.t # "array" THEN Parsed("aborted", <<InvalidType("array", value.t, path)>>)
         ELSE EvalItems(heap, node.type, value.items, path, 1)
    [] node.kind = "record" ->
         IF value.t # "object" THEN Parsed("aborted", <<InvalidType("object", value.t, path)>>)
         ELSE EvalRecord(heap, node.valueType, value.props, path, 1)
    [] node.kind = "optional" ->
         IF value.t = "undefined" THEN Parsed("valid", <<>>)
         ELSE Evaluate(heap, node.inner, value, path)
    [] node.kind = "lazy" -> Evaluate(heap, node.target, value, path)
    [] node.kind = "union" -> EvalUnion(heap, node.options, value, path, 1, <<>>, <<>>)
    [] node.kind = "effects" ->
         LET inner == Evaluate(heap, node.inner, value, path)
         IN  IF inner.status = "aborted" THEN inner
             ELSE LET added == FixedCollectionIssues(value, 1, 1, path)
                  IN  Parsed(IF Len(added) > 0 THEN "dirty" ELSE inner.status,
                             inner.issues \o added)
    [] OTHER ->
         IF value.t = node.kind THEN Parsed("valid", <<>>)
         ELSE Parsed("aborted", <<InvalidType(node.kind, value.t, path)>>)

\* schema.safeParse(value).success
Accepts(heap, ref, value) == Evaluate(heap, ref, value, <<>>).status = "valid"

(***************************************************************************)
(* deepStrict.  schema.strict() makes a new ZodObject from {...this._def,  *)
(* unknownKeys: "strict"}: the new object shares the shape object of the   *)
(* old one, so the assignments shape[key] = ... write into the shape of    *)
(* the schema passed in.  ZodArray.element is an accessor that returns     *)
(* _def.type, a schema object and no function: calling it raises a         *)
(* TypeError.  The result is {heap, ref, threw, error}.                    *)
(***************************************************************************)

ElementNotAFunction == <<"s","c","h","e","m","a",".","e","l","e","m","e","n","t"," ","i","s"," ","n","o","t"," ","a"," ","f","u","n","c","t","i","o","n">>

\* schema.strict(): a new schema object on the same shape
Strict(heap, ref) ==
  [heap |-> [heap EXCEPT !.nodes = Append(@, [heap.nodes[ref] EXCEPT !.unknownKeys = "strict"])],
   ref  |-> Len(heap.nodes) + 1]

\* schema.element(inner), schema a ZodArray
CallElement(heap, ref, inner) ==
  [heap |-> heap, ref |-> ref, threw |-> TRUE, error |-> ElementNotAFunction]

RECURSIVE deepStrict(_, _)
RECURSIVE StrictShape(_, _, _, _)

\* for (const key of Object.keys(shape)) shape[key] = deepStrict(shape[key])
StrictShape(heap, h, i, strictObj) ==
  IF i > Len(heap.shapes[h].keys)
    THEN [heap |-> heap, ref |-> strictObj, threw |-> FALSE, error |-> <<>>]
  ELSE
    LET key == heap.shapes[h].keys[i]
        r   == deepStrict(heap, heap.shapes[h].child[key])
    IN  IF r.threw THEN r
        ELSE StrictShape([r.heap EXCEPT !.shapes[h].child[key] = r.ref], h, i + 1, strictObj)

deepStrict(heap, ref) ==
  LET schema == heap.nodes[ref] IN
  IF schema.kind = "object" THEN
    LET s == Strict(heap, ref)
    IN  StrictShape(s.heap, schema.shape, 1, s.ref)
  ELSE IF schema.kind = "array" THEN
    LET inner == deepStrict(heap, schema.type)
    IN  IF inner.threw THEN inner ELSE CallElement(inner.heap, ref, inner.ref)
  ELSE [heap |-> heap, ref |-> ref, threw |-> FALSE, error |-> <<>>]

(***************************************************************************)
(* The schemas of the model.  Some are the schemas of the workflow types   *)
(* module (NodeParameterValueSchema, NodeParametersSchema, and INodeSchema,*)
(* WorkflowMetadataSchema, ITagSchema, WorkflowDataUpdateSchema cut down   *)
(* to a few fields of each kind); the others are small schemas of the      *)
(* same building blocks.                                                   *)
(***************************************************************************)

NumberSchema == 1
StringSchema == 2
BooleanSchema == 3
NullSchema == 4
UndefinedSchema == 5
RequiredPairSchema == 6
ClosedSingleSchema == 7
IConnectionSchema == 8
OuterOpenSchema == 9
InnerUnionSchema == 10
OuterUnionSchema == 11
NestedUnionSchema == 12
NodeParameterValueSchema == 13
NodeParameterUnion == 14
NodeParameterArray == 15
NodeParameterArrayItem == 16
NodeParameterRecord == 17
NodeParameterRecordItem == 18
NodeParametersRecord == 19
NodeParametersSchema == 20
StringArraySchema == 21
ITagSchema == 22
ITagArraySchema == 23
TagsUnionSchema == 24
OptionalTagsSchema == 25
OptionalStringSchema == 26
WorkflowMetadataSchema == 27
OptionalMetadataSchema == 28
INodeSchema == 29
INodeArraySchema == 30
WorkflowDataUpdateSchema == 31

ObjectSchema(shape, unknownKeys) ==
  [kind |-> "object", shape |-> shape, unknownKeys |-> unknownKeys]

InitialNodes ==
  << [kind |-> "number"],
     [kind |-> "string"],
     [kind |-> "boolean"],
     [kind |-> "null"],
     [kind |-> "undefined"],
     ObjectSchema(1, "strip"),
     ObjectSchema(2, "strict"),
     ObjectSchema(3, "strip"),
     ObjectSchema(4, "passthrough"),
     [kind |-> "union", options |-> <<NumberSchema, NullSchema>>],
     [kind |-> "union", options |-> <<StringSchema, InnerUnionSchema>>],
     ObjectSchema(5, "strip"),
     [kind |-> "lazy", target |-> NodeParameterUnion],
     [kind |-> "union",
      options |-> <<StringSchema, NumberSchema, BooleanSchema, NullSchema, UndefinedSchema,
                    NodeParameterArray, NodeParameterRecord>>],
     [kind |-> "array", type |-> NodeParameterArrayItem],
     [kind |-> "lazy", target |-> NodeParameterValueSchema],
     [kind |-> "record", valueType |-> NodeParameterRecordItem],
     [kind |-> "lazy", target |-> NodeParameterValueSchema],
     [kind |-> "record", valueType |-> NodeParameterValueSchema],
     [kind |-> "effects", inner |-> NodeParametersRecord],
     [kind |-> "array", type |-> StringSchema],
     ObjectSchema(6, "passthrough"),
     [kind |-> "array", type |-> ITagSchema],
     [kind |-> "union", options |-> <<StringArraySchema, ITagArraySchema>>],
     [kind |-> "optional", inner |-> TagsUnionSchema],
     [kind |-> "optional", inner |-> StringSchema],
     ObjectSchema(7, "passthrough"),
     [kind |-> "optional", inner |-> WorkflowMetadataSchema],
     ObjectSchema(8, "passthrough"),
     [kind |-> "array", type |-> INodeSchema],
     ObjectSchema(9, "passthrough") >>

Shape(keys, child) == [keys |-> keys, child |-> child]

InitialShapes ==
  << \* 1: RequiredPairSchema      z.object({a: z.number(), b: z.string()})
     Shape(<< <<"a">>, <<"b">> >>, (<<"a">> :> NumberSchema) @@ (<<"b">> :> StringSchema)),
     \* 2: ClosedSingleSchema      z.object({a: z.number()}).strict()
     Shape(<< <<"a">> >>, (<<"a">> :> NumberSchema)),
     \* 3: IConnectionSchema       z.object({index: z.number()})
     Shape(<< <<"i","n","d","e","x">> >>, (<<"i","n","d","e","x">> :> NumberSchema)),
     \* 4: OuterOpenSchema         z.object({a: IConnectionSchema}).passthrough()
     Shape(<< <<"a">> >>, (<<"a">> :> IConnectionSchema)),
     \* 5: NestedUnionSchema       z.object({v: z.union([z.string(), z.union([..])])})
     Shape(<< <<"v">> >>, (<<"v">> :> OuterUnionSchema)),
     \* 6: ITagSchema              z.object({id: z.string()}).passthrough()
     Shape(<< <<"i","d">> >>, (<<"i","d">> :> StringSchema)),
     \* 7: WorkflowMetadataSchema  z.object({templateId: z.string().optional()}).passthrough()
     Shape(<< <<"t","e","m","p","l","a","t","e","I","d">> >>, (<<"t","e","m","p","l","a","t","e","I","d">> :> OptionalStringSchema)),
     \* 8: INodeSchema             z.object({id, parameters}).passthrough()
     Shape(<< <<"i","d">>, <<"p","a","r","a","m","e","t","e","r","s">> >>,
           (<<"i","d">> :> StringSchema) @@ (<<"p","a","r","a","m","e","t","e","r","s">> :> NodeParametersSchema)),
     \* 9: WorkflowDataUpdateSchema z.object({name, nodes, tags, meta}).passthrough()
     Shape(<< <<"n","a","m","e">>, <<"n","o","d","e","s">>, <<"t","a","g","s">>, <<"m","e","t","a">> >>,
           (<<"n","a","m","e">> :> OptionalStringSchema) @@ (<<"n","o","d","e","s">> :> INodeArraySchema)
             @@ (<<"t","a","g","s">> :> OptionalTagsSchema) @@ (<<"m","e","t","a">> :> OptionalMetadataSchema)) >>

InitialHeap == [nodes |-> InitialNodes, shapes |-> InitialShapes]

\* the schemas a caller passes
SchemaRoots ==
  {RequiredPairSchema, ClosedSingleSchema, OuterOpenSchema, NestedUnionSchema,
   INodeSchema, WorkflowDataUpdateSchema}

(***************************************************************************)
(* ValidationIssue, ValidationResult and the issue handling of             *)
(* validateJson.  An absent suggestion (undefined) is the empty string     *)
(* <<>>; an absent data is UndefinedValue.                                 *)
(***************************************************************************)

ValidationIssue(message, suggestion, jsonPointer, line, column) ==
  [message |-> message, suggestion |-> suggestion, jsonPointer |-> jsonPointer,
   line |-> line, column |-> column]

Invalid(errors) == [valid |-> FALSE, data |-> UndefinedValue, errors |-> errors]

\* a success result that leaves data out
ValidWithoutData(parsed) == [valid |-> TRUE, data |-> UndefinedValue, errors |-> <<>>]

Valid(parsed) == [valid |-> TRUE, data |-> parsed, errors |-> <<>>]

\* the result of a stage: return a result, continue with the next stage, or
\* let an exception leave the function
Return(result) == [kind |-> "return", result |-> result, error |-> <<>>]
Continue == [kind |-> "continue", result |-> Invalid(<<>>), error |-> <<>>]
Throw(error) == [kind |-> "throw", result |-> Invalid(<<>>), error |-> error]

\* lines 220-232
NotAStringResult ==
  Invalid(<<ValidationIssue(<<"I","n","v","a","l","i","d"," ","i","n","p","u","t",":"," ","e","x","p","e","c","t","e","d"," ","s","t","r","i","n","g">>, <<>>, <<>>, 0, 0)>>)

\* the catch block of lines 239-251
ParseCatch(error) ==
  Return(Invalid(<<ValidationIssue(<<"P","a","r","s","e"," ","e","r","r","o","r",":"," ">> \o error, <<>>, <<>>, 0, 0)>>))

\* errors.map(...) of lines 257-265
SyntaxIssues(jsonText, errors) ==
  [i \in 1..Len(errors) |->
     LET loc == positionFromOffset(jsonText, errors[i].offset)
     IN  ValidationIssue(<<"S","y","n","t","a","x"," ","e","r","r","o","r",":"," ">> \o printParseErrorCode(errors[i].error),
                         <<>>, <<>>, loc.line, loc.column)]

\* the catch block of lines 275-287
IndexCatch(error) ==
  Return(Invalid(<<ValidationIssue(<<"E","r","r","o","r"," ","p","r","o","c","e","s","s","i","n","g"," ","J","S","O","N"," ","s","t","r","u","c","t","u","r","e",":"," ">> \o error,
                                   <<>>, <<>>, 0, 0)>>))

\* the catch block of lines 293-305
SchemaCatch(error) ==
  Return(Invalid(<<ValidationIssue(<<"S","c","h","e","m","a"," ","e","r","r","o","r",":"," ">> \o error, <<>>, <<>>, 0, 0)>>))

\* the branch of lines 350-357: an exception that is no ZodError
EngineCatch(error) ==
  Return(Invalid(<<ValidationIssue(<<"V","a","l","i","d","a","t","i","o","n"," ","e","r","r","o","r",":"," ">> \o error, <<>>, <<"r","o","o","t">>, 0, 0)>>))

\* validateJsonFile without its catch block: the exception goes on to the caller
FileRethrow(error) == Throw(error)

\* the catch block of validateJsonFile, lines 377-389
FileCatch(error) ==
  Return(Invalid(<<ValidationIssue(<<"F","i","l","e"," ","e","r","r","o","r",":"," ">> \o error, <<>>, <<>>, 0, 0)>>))

\* `${issue.path[issue.path.length - 1]}`
LastSegment(path) ==
  IF Len(path) = 0 THEN <<"u","n","d","e","f","i","n","e","d">> ELSE SegToString(path[Len(path)])

\* the suggestion chosen in handleIssue, lines 318-327
Suggestion(issue) ==
  IF Includes(ToLowerCase(issue.message), <<"r","e","q","u","i","r","e","d">>)
    THEN <<"A","d","d"," ","m","i","s","s","i","n","g"," ","f","i","e","l","d",":"," ","\"">> \o LastSegment(issue.path) \o <<"\"">>
  ELSE IF issue.code = "unrecognized_keys"
    THEN <<"R","e","m","o","v","e"," ","t","h","i","s"," ","f","i","e","l","d"," ","-"," ","i","t"," ","i","s"," ","n","o","t"," ","a","l","l","o","w","e","d"," ","b","y"," ","t","h","e"," ","s","c","h","e","m","a">>
  ELSE IF issue.code = "invalid_type" /\ "expected" \in issue.fields /\ "received" \in issue.fields
    THEN <<"E","x","p","e","c","t","e","d"," ","t","y","p","e"," ","'">> \o TypeChars(issue.expected) \o <<"'",","," ","g","o","t"," ","'">>
           \o TypeChars(issue.received) \o <<"'">>
  ELSE <<>>

\* handleIssue, lines 313-336: the ValidationIssue it pushes
handleIssue(issue, pointerMap, jsonText) ==
  LET pointer == pathToPointer(issue.path)
      loc     == IF pointer \in DOMAIN pointerMap
                   THEN positionFromOffset(jsonText, pointerMap[pointer].offset)
                   ELSE [line |-> 0, column |-> 0]
  IN  ValidationIssue(<<"V","a","l","i","d","a","t","i","o","n"," ","e","r","r","o","r",":"," ">> \o issue.message, Suggestion(issue),
                      pointer, loc.line, loc.column)

RECURSIVE Concat(_)
Concat(seqs) == IF Len(seqs) = 0 THEN <<>> ELSE Head(seqs) \o Concat(Tail(seqs))

\* the issues one native issue is turned into, lines 339-349: the issues of
\* the alternatives of an invalid_union, else the issue itself
IssuesOf(issue, pointerMap, jsonText) ==
  IF issue.code = "invalid_union"
    THEN LET inner == Concat(issue.unionErrors)
         IN  [i \in 1..Len(inner) |-> handleIssue(inner[i], pointerMap, jsonText)]
    ELSE <<handleIssue(issue, pointerMap, jsonText)>>

\* e.issues.map(...) of lines 338-349
EnrichedIssues(issues, pointerMap, jsonText) ==
  Concat([i \in 1..Len(issues) |-> IssuesOf(issues[i], pointerMap, jsonText)])

(***************************************************************************)
(* createErrorSummary and groupIssuesByCategory.                           *)
(***************************************************************************)

\* the branches of the loop with the test for 'invalid' put first
GroupOfInvalidFirst(issue) ==
  IF Includes(ToLowerCase(issue.message), <<"i","n","v","a","l","i","d">>) THEN "invalid"
  ELSE IF Includes(ToLowerCase(issue.message), <<"m","i","s","s","i","n","g">>)
            \/ Includes(ToLowerCase(issue.message), <<"r","e","q","u","i","r","e","d">>) THEN "missing"
  ELSE IF Includes(ToLowerCase(issue.message), <<"u","n","e","x","p","e","c","t","e","d">>) THEN "unexpected"
  ELSE "other"

\* the branch of the loop of groupIssuesByCategory an issue takes
GroupOf(issue) ==
  LET lower == ToLowerCase(issue.message)
  IN  IF Includes(lower, <<"m","i","s","s","i","n","g">>) \/ Includes(lower, <<"r","e","q","u","i","r","e","d">>) THEN "missing"
      ELSE IF Includes(lower, <<"u","n","e","x","p","e","c","t","e","d">>) THEN "unexpected"
      ELSE IF Includes(lower, <<"i","n","v","a","l","i","d">>) THEN "invalid"
      ELSE "other"

RECURSIVE GroupLoop(_, _, _)
\* the loop of groupIssuesByCategory: issue i is pushed to its group
GroupLoop(issues, i, grouped) ==
  IF i > Len(issues) THEN grouped
  ELSE GroupLoop(issues, i + 1,
         [grouped EXCEPT ![GroupOf(issues[i])] = Append(@, issues[i])])

groupIssuesByCategory(issues) ==
  GroupLoop(issues, 1, [g \in {"missing", "invalid", "unexpected", "other"} |-> <<>>])

Bulb == "(bulb)"

\* the lines of one issue: the message, then the suggestion if there is one
IssueLines(issue) ==
  <<<<" "," "," ","-"," ">> \o issue.message>>
    \o (IF Len(issue.suggestion) > 0
          THEN <<<<" "," "," "," "," "," ">> \o <<Bulb, " ">> \o issue.suggestion>> ELSE <<>>)

\* one if-block of createErrorSummary: the header and the group's lines
Block(header, group) ==
  IF Len(group) > 0
    THEN <<header>> \o Concat([i \in 1..Len(group) |-> IssueLines(group[i])])
    ELSE <<>>

createErrorSummary(issues) ==
  LET grouped == groupIssuesByCategory(issues)
      parts   == Block(<<"\n">> \o <<"M","i","s","s","i","n","g"," ","R","e","q","u","i","r","e","d"," ","F","i","e","l","d","s",":">>, grouped["missing"])
                   \o Block(<<"\n">> \o <<"I","n","v","a","l","i","d"," ","V","a","l","u","e","s",":">>, grouped["invalid"])
                   \o Block(<<"\n">> \o <<"U","n","e","x","p","e","c","t","e","d"," ","F","i","e","l","d","s",":">>, grouped["unexpected"])
                   \o Block(<<"\n">> \o <<"O","t","h","e","r"," ","I","s","s","u","e","s",":">>, grouped["other"])
  IN  Join(parts, <<"\n">>)

(***************************************************************************)
(* The inputs: the texts a caller passes, the failures of the environment. *)
(***************************************************************************)

\* {"a": 1}
TextRequired == <<"{","\"","a","\"",":"," ","1","}">>
\* {"a": 1, "c": true}
TextExtraKey == <<"{","\"","a","\"",":"," ","1",","," ","\"","c","\"",":"," ","t","r","u","e","}">>
\* {"a": }
TextMissingValue == <<"{","\"","a","\"",":"," ","}">>
\* {"a" 1 "b":2          two syntax errors
TextTwoErrors == <<"{","\"","a","\""," ","1"," ","\"","b","\"",":","2">>
\* "ab                   an unterminated string
TextOpenString == <<"\"","a","b">>
\* the empty text: no tree at all
TextEmpty == <<>>
\* two lines, valid for RequiredPairSchema
TextTwoLines == <<"{","\"","a","\"",":"," ","1",",","\n"," ","\"","b","\"",":"," ","\"","s","\"","}">>
\* a nested object with an undeclared key
TextNestedExtra == <<"{","\"","a","\"",":"," ","{","\"","i","n","d","e","x","\"",":"," ","1",","," ","\"","x","\"",":"," ","2","}","}">>
\* a value no alternative of the nested union accepts
TextUnion == <<"{","\"","v","\"",":"," ","t","r","u","e","}">>
\* keys with ~, / and a JSON escape; an array; a line comment
TextKeys == <<"{","\"","~","/","\"",":"," ","[","1",","," ","{","\"","q","\\","\"","\"",":"," ","2","}","]",","," ","/","/"," ","c","\n"," ","\"","v","\"",":"," ","\"","s","\"","}">>
\* a node whose parameters hold a numeric-keyed object under the key "required"
TextNode == <<"{","\"","i","d","\"",":"," ","\"","n","\"",","," ","\"","p","a","r","a","m","e","t","e","r","s","\"",":"," ","{","\"","p","\"",":"," ","{","\"","r","e","q","u","i","r","e","d","\"",":"," ","{","\"","0","\"",":"," ","1","}","}","}","}">>
\* a node with an undeclared key named "required"
TextMeta == <<"{","\"","i","d","\"",":"," ","\"","n","\"",","," ","\"","p","a","r","a","m","e","t","e","r","s","\"",":"," ","{","}",","," ","\"","r","e","q","u","i","r","e","d","\"",":"," ","1","}">>
\* a workflow update
TextWorkflow == <<"{","\"","n","o","d","e","s","\"",":"," ","[","]",","," ","\"","t","a","g","s","\"",":"," ","[","\"","t","\"","]","}">>

Texts ==
  {TextRequired, TextExtraKey, TextMissingValue, TextTwoErrors, TextOpenString,
   TextEmpty, TextTwoLines, TextNestedExtra, TextUnion, TextKeys, TextNode,
   TextMeta, TextWorkflow}

\* the message of an exception raised inside a library call (a RangeError
\* on a document or schema too deep for the stack)
StackOverflow == <<"M","a","x","i","m","u","m"," ","c","a","l","l"," ","s","t","a","c","k"," ","s","i","z","e"," ","e","x","c","e","e","d","e","d">>

\* the message of the exception of fs.readFileSync on a missing path
NoSuchFile == <<"E","N","O","E","N","T",":"," ","n","o"," ","s","u","c","h"," ","f","i","l","e"," ","o","r"," ","d","i","r","e","c","t","o","r","y">>

\* the texts of the files validateJsonFile finds
FileTexts == {TextRequired, TextExtraKey, TextMissingValue}

\* the number of calls made on the same schema objects
MaxCalls == 2

\* the longest issue list handed to createErrorSummary directly
MaxIssues == 3

\* the issues createErrorSummary is handed directly
IssuePool ==
  { ValidationIssue(<<"V","a","l","i","d","a","t","i","o","n"," ","e","r","r","o","r",":"," ","R","e","q","u","i","r","e","d">>, <<"A","d","d"," ","m","i","s","s","i","n","g"," ","f","i","e","l","d",":"," ","\"","b","\"">>, <<"/","b">>, 0, 0),
    ValidationIssue(<<"M","i","s","s","i","n","g"," ","I","N","V","A","L","I","D">>, <<>>, <<>>, 1, 1),
    ValidationIssue(<<"S","y","n","t","a","x"," ","e","r","r","o","r",":"," ","U","n","e","x","p","e","c","t","e","d","E","n","d","O","f","S","t","r","i","n","g">>, <<>>, <<>>, 1, 1),
    ValidationIssue(<<"U","n","e","x","p","e","c","t","e","d"," ","I","n","v","a","l","i","d">>, <<"f","i","x">>, <<>>, 1, 2),
    ValidationIssue(<<"V","a","l","i","d","a","t","i","o","n"," ","e","r","r","o","r",":"," ","I","n","v","a","l","i","d"," ","i","n","p","u","t">>, <<>>, <<"/","v">>, 1, 7),
    ValidationIssue(<<"V","a","l","i","d","a","t","i","o","n"," ","e","r","r","o","r",":"," ","E","x","p","e","c","t","e","d"," ","s","t","r","i","n","g",","," ","r","e","c","e","i","v","e","d"," ","n","u","m","b","e","r">>,
                    <<"E","x","p","e","c","t","e","d"," ","t","y","p","e"," ","'","s","t","r","i","n","g","'",","," ","g","o","t"," ","'","n","u","m","b","e","r","'">>, <<"/","a">>, 1, 7) }

IssueLists == UNION {[1..n -> IssuePool] : n \in 0..MaxIssues}

(***************************************************************************)
(* The state.                                                              *)
(***************************************************************************)

VARIABLES
  pc,          \* the stage validateJson / validateJsonFile is at
  entry,       \* the function the caller called
  calls,       \* the calls made so far
  jsonText,    \* the argument jsonText: [isString, chars]
  schema,      \* the argument schema: a schema object of the heap
  file,        \* validateJsonFile: [exists, raw], the file at filePath
  heap,        \* the schema objects and shape objects
  heap0,       \* the heap when the call was made
  tree,        \* the parse tree
  errors,      \* the ParseErrors
  data,        \* getNodeValue(tree)
  pointerMap,  \* buildPointerMap(tree, jsonText)
  strictSchema,\* deepStrict(schema): [threw, ref]
  zodIssues,   \* the issues of the ZodError of strictSchema.parse(data)
  result,      \* the ValidationResult returned
  stages,      \* the stages entered in this call
  raised,      \* the library call that raised in this call, if any
  summary      \* the last call of createErrorSummary: [done, issues, text]

vars ==
  <<pc, entry, calls, jsonText, schema, file, heap, heap0, tree, errors, data,
    pointerMap, strictSchema, zodIssues, result, stages, raised, summary>>

NoSummary == [done |-> FALSE, issues |-> <<>>, text |-> <<>>]

NoStrictSchema == [threw |-> FALSE, ref |-> 0]

\* no call made yet
Idle ==
  /\ pc = "idle"
  /\ entry = "none"
  /\ calls = 0
  /\ jsonText = [isString |-> TRUE, chars |-> <<>>]
  /\ schema = NumberSchema
  /\ file = [exists |-> FALSE, raw |-> <<>>]
  /\ heap = InitialHeap
  /\ heap0 = InitialHeap
  /\ tree = Undefined
  /\ errors = <<>>
  /\ data = UndefinedValue
  /\ pointerMap = EmptyMap
  /\ strictSchema = NoStrictSchema
  /\ zodIssues = <<>>
  /\ result = Invalid(<<>>)
  /\ stages = {}
  /\ raised = "none"

Init == Idle /\ summary = NoSummary

\* what every call starts from
Begin(fn, text, root, fl, first) ==
  /\ pc \in {"idle", "returned", "raised"}
  /\ calls < MaxCalls
  /\ calls' = calls + 1
  /\ entry' = fn
  /\ jsonText' = text
  /\ schema' = root
  /\ file' = fl
  /\ heap0' = heap
  /\ tree' = Undefined
  /\ errors' = <<>>
  /\ data' = UndefinedValue
  /\ pointerMap' = EmptyMap
  /\ strictSchema' = NoStrictSchema
  /\ zodIssues' = <<>>
  /\ result' = Invalid(<<>>)
  /\ stages' = {first}
  /\ raised' = "none"
  /\ summary' = NoSummary
  /\ pc' = first
  /\ UNCHANGED heap

\* a caller calls validateJson(jsonText, schema)
CallValidateJson(text, root) ==
  Begin("validateJson", text, root, [exists |-> FALSE, raw |-> <<>>], "ReceivingInput")

\* a caller calls validateJsonFile(filePath, schema)
CallValidateJsonFile(fl, root) ==
  Begin("validateJsonFile", [isString |-> TRUE, chars |-> <<>>], root, fl, "ReadingFile")

\* a stage ends: the function returns, goes on to the next stage, or an
\* exception leaves it; validateJsonFile catches what leaves validateJson
Finish(c, next) ==
  LET d == IF c.kind = "throw" /\ entry = "validateJsonFile" THEN FileCatch(c.error) ELSE c
  IN  /\ pc' = CASE d.kind = "return" -> "returned"
                 [] d.kind = "throw" -> "raised"
                 [] OTHER -> next
      /\ result' = d.result
      /\ stages' = IF d.kind = "continue" THEN stages \cup {next} ELSE stages

\* the try block of validateJsonFile up to the call of validateJson
ReadFileStage(fl) == IF fl.exists THEN Continue ELSE FileCatch(NoSuchFile)

ReadFile ==
  /\ pc = "ReadingFile"
  /\ Finish(ReadFileStage(file), "ReceivingInput")
  /\ jsonText' = [isString |-> TRUE, chars |-> file.raw]
  /\ raised' = IF file.exists THEN raised ELSE "readFileSync"
  /\ UNCHANGED <<entry, calls, schema, file, heap, heap0, tree, errors, data,
                 pointerMap, strictSchema, zodIssues, summary>>

\* lines 220-232
ReceiveInputStage(text) == IF ~text.isString THEN Return(NotAStringResult) ELSE Continue

ReceiveInput ==
  /\ pc = "ReceivingInput"
  /\ Finish(ReceiveInputStage(jsonText), "Parsing")
  /\ UNCHANGED <<entry, calls, jsonText, schema, file, heap, heap0, tree, errors,
                 data, pointerMap, strictSchema, zodIssues, raised, summary>>

\* lines 234-267 with the test of line 254 reduced to !tree
ParseStageTreeOnly(text, parsed, threw) ==
  IF threw THEN ParseCatch(StackOverflow)
  ELSE IF parsed.tree = Undefined
    THEN Return(Invalid(SyntaxIssues(text, parsed.errors)))
  ELSE Continue

\* lines 234-267; parsed is {tree, errors}, threw when parseTree raised
ParseStage(text, parsed, threw) ==
  IF threw THEN ParseCatch(StackOverflow)
  ELSE IF Len(parsed.errors) > 0 \/ parsed.tree = Undefined
    THEN Return(Invalid(SyntaxIssues(text, parsed.errors)))
  ELSE Continue

\* parseTree returns, or raises
Parse(threw) ==
  /\ pc = "Parsing"
  /\ LET parsed == IF threw THEN [tree |-> Undefined, errors |-> <<>>]
                   ELSE parseTree(jsonText.chars)
     IN  /\ tree' = parsed.tree
         /\ errors' = parsed.errors
         /\ Finish(ParseStage(jsonText.chars, parsed, threw), "BuildingIndex")
  /\ raised' = IF threw THEN "parseTree" ELSE raised
  /\ UNCHANGED <<entry, calls, jsonText, schema, file, heap, heap0, data,
                 pointerMap, strictSchema, zodIssues, summary>>

\* lines 269-287
BuildIndexStage(threw) == IF threw THEN IndexCatch(StackOverflow) ELSE Continue

\* getNodeValue and buildPointerMap return, or one of them raises
BuildIndex(threw) ==
  /\ pc = "BuildingIndex"
  /\ data' = IF threw THEN data ELSE getNodeValue(tree)
  /\ pointerMap' = IF threw THEN pointerMap ELSE buildPointerMap(tree, jsonText.chars, <<>>)
  /\ Finish(BuildIndexStage(threw), "Strictifying")
  /\ raised' = IF threw THEN "buildPointerMap" ELSE raised
  /\ UNCHANGED <<entry, calls, jsonText, schema, file, heap, heap0, tree, errors,
                 strictSchema, zodIssues, summary>>

\* lines 289-305; strict is the outcome of deepStrict(schema)
StrictifyStage(strict) == IF strict.threw THEN SchemaCatch(strict.error) ELSE Continue

Strictify ==
  /\ pc = "Strictifying"
  /\ LET strict == deepStrict(heap, schema)
     IN  /\ heap' = strict.heap
         /\ strictSchema' = [threw |-> strict.threw, ref |-> strict.ref]
         /\ Finish(StrictifyStage(strict), "Validating")
         /\ raised' = IF strict.threw THEN "deepStrict" ELSE raised
  /\ UNCHANGED <<entry, calls, jsonText, schema, file, heap0, tree, errors, data,
                 pointerMap, zodIssues, summary>>

\* lines 307-363; parsed is the outcome of strictSchema.parse(data), threw
\* when it raised something that is no ZodError
ValidateStage(parsed, threw, value, map, text) ==
  IF threw THEN EngineCatch(StackOverflow)
  ELSE IF parsed.status = "valid" THEN Return(Valid(value))
  ELSE Return(Invalid(EnrichedIssues(parsed.issues, map, text)))

\* strictSchema.parse(data) returns, raises a ZodError, or raises another error
Validate(threw) ==
  /\ pc = "Validating"
  /\ LET parsed == IF threw THEN Parsed("aborted", <<>>)
                   ELSE Evaluate(heap, strictSchema.ref, data, <<>>)
     IN  /\ zodIssues' = parsed.issues
         /\ Finish(ValidateStage(parsed, threw, data, pointerMap, jsonText.chars),
                   "Validating")
  /\ raised' = IF threw THEN "parse" ELSE raised
  /\ UNCHANGED <<entry, calls, jsonText, schema, file, heap, heap0, tree, errors,
                 data, pointerMap, strictSchema, summary>>

Next ==
  \/ \E text \in Texts, root \in SchemaRoots :
       CallValidateJson([isString |-> TRUE, chars |-> text], root)
  \/ \E root \in SchemaRoots :
       CallValidateJson([isString |-> FALSE, chars |-> <<>>], root)
  \/ \E text \in FileTexts, root \in SchemaRoots :
       CallValidateJsonFile([exists |-> TRUE, raw |-> text], root)
  \/ \E root \in SchemaRoots :
       CallValidateJsonFile([exists |-> FALSE, raw |-> <<>>], root)
  \/ ReadFile
  \/ ReceiveInput
  \/ \E threw \in BOOLEAN : Parse(threw)
  \/ \E threw \in BOOLEAN : BuildIndex(threw)
  \/ Strictify
  \/ \E threw \in BOOLEAN : Validate(threw)

Spec == Init /\ [][Next]_vars

(***************************************************************************)
(* createErrorSummary called on its own: a caller formats a list of issues.*)
(***************************************************************************)

\* the caller holds a list of issues
SummaryInit ==
  /\ Idle
  /\ \E issues \in IssueLists : summary = [done |-> FALSE, issues |-> issues, text |-> <<>>]

\* the caller calls createErrorSummary(issues)
Summarise ==
  /\ ~summary.done
  /\ summary' = [summary EXCEPT !.done = TRUE, !.text = createErrorSummary(summary.issues)]
  /\ UNCHANGED <<pc, entry, calls, jsonText, schema, file, heap, heap0, tree,
                 errors, data, pointerMap, strictSchema, zodIssues, result, stages, raised>>

SummaryNext == Summarise

SummarySpec == SummaryInit /\ [][SummaryNext]_vars

(***************************************************************************)
(* The properties.  Helpers first: prefixes, the walk of a parse tree      *)
(* along a path, the undeclared keys of a value, the leaves of nested      *)
(* union issues.                                                           *)
(***************************************************************************)

IsPrefix(p, s) == Len(p) <= Len(s) /\ SubSeq(s, 1, Len(p)) = p

\* parseTree returned in this call (it did not raise)
ParseDone == "Parsing" \in stages /\ pc # "Parsing" /\ raised # "parseTree"

\* getNodeValue and buildPointerMap returned in this call
IndexDone == "Strictifying" \in stages

\* deepStrict was called in this call, and has returned or raised
StrictifyDone == "Strictifying" \in stages /\ pc # "Strictifying"

\* strictSchema.parse(data) raised a ZodError in this call
SchemaRejected ==
  pc = "returned" /\ "Validating" \in stages /\ raised = "none" /\ ~result.valid

\* the property node of the last occurrence of key in an object node
PropertyOf(node, key) ==
  node.children[CHOOSE i \in 1..Len(node.children) :
                  /\ node.children[i].children[1].value = key
                  /\ \A j \in (i + 1)..Len(node.children) :
                       node.children[j].children[1].value # key]

RECURSIVE NodeAt(_, _)
\* the node of the value at path, a path of decoded keys and indices
NodeAt(node, path) ==
  IF Len(path) = 0 THEN node
  ELSE IF Head(path).k = "key"
    THEN NodeAt(PropertyOf(node, Head(path).v).children[2], Tail(path))
    ELSE NodeAt(node.children[Head(path).v + 1], Tail(path))

RECURSIVE DocumentPaths(_, _)
\* every path of decoded keys and zero-based indices that leads to a node
DocumentPaths(node, path) ==
  {path}
    \cup (IF node.type = "object"
            THEN UNION {DocumentPaths(node.children[i].children[2],
                                      Append(path, Key(node.children[i].children[1].value))) :
                          i \in {n \in 1..Len(node.children) : Len(node.children[n].children) = 2}}
            ELSE {})
    \cup (IF node.type = "array"
            THEN UNION {DocumentPaths(node.children[i], Append(path, Index(i - 1))) :
                          i \in 1..Len(node.children)}
            ELSE {})

\* the keys an object schema declares
Declared(h, ref) ==
  {h.shapes[h.nodes[ref].shape].keys[n] : n \in 1..Len(h.shapes[h.nodes[ref].shape].keys)}

RECURSIVE UndeclaredKeys(_, _, _, _)
\* the paths of the keys of value, at any depth, that the object schema
\* governing their object does not declare; object schemas are followed
\* through object fields and array elements
UndeclaredKeys(h, ref, value, path) ==
  IF h.nodes[ref].kind = "object" /\ value.t = "object" THEN
    UNION {IF value.props[j].key \in Declared(h, ref)
             THEN UndeclaredKeys(h, h.shapes[h.nodes[ref].shape].child[value.props[j].key],
                                 value.props[j].value, Append(path, Key(value.props[j].key)))
             ELSE {Append(path, Key(value.props[j].key))} : j \in 1..Len(value.props)}
  ELSE IF h.nodes[ref].kind = "array" /\ value.t = "array" THEN
    UNION {UndeclaredKeys(h, h.nodes[ref].type, value.items[i], Append(path, Index(i - 1))) :
             i \in 1..Len(value.items)}
  ELSE {}

\* the position in the text of the key a path ends with
KeyPosition(path) ==
  positionFromOffset(jsonText.chars,
    PropertyOf(NodeAt(tree, SubSeq(path, 1, Len(path) - 1)), path[Len(path)].v).children[1].offset)

\* the schema objects a schema object refers to
Children(h, ref) ==
  CASE h.nodes[ref].kind = "object" ->
         {h.shapes[h.nodes[ref].shape].child[k] : k \in Declared(h, ref)}
    [] h.nodes[ref].kind = "array" -> {h.nodes[ref].type}
    [] h.nodes[ref].kind = "optional" -> {h.nodes[ref].inner}
    [] h.nodes[ref].kind = "effects" -> {h.nodes[ref].inner}
    [] h.nodes[ref].kind = "lazy" -> {h.nodes[ref].target}
    [] h.nodes[ref].kind = "record" -> {h.nodes[ref].valueType}
    [] h.nodes[ref].kind = "union" ->
         {h.nodes[ref].options[n] : n \in 1..Len(h.nodes[ref].options)}
    [] OTHER -> {}

RECURSIVE Reachable(_, _)
\* every schema object reachable from the schema objects of refs
Reachable(h, refs) ==
  IF UNION {Children(h, r) : r \in refs} \subseteq refs THEN refs
  ELSE Reachable(h, refs \cup UNION {Children(h, r) : r \in refs})

\* the schema objects an object or array schema refers to through its
\* fields or its element
StructuralChildren(h, ref) ==
  IF h.nodes[ref].kind \in {"object", "array"} THEN Children(h, ref) ELSE {}

RECURSIVE StructurallyReachable(_, _)
\* every schema object reachable through object fields and array elements
StructurallyReachable(h, refs) ==
  IF UNION {StructuralChildren(h, r) : r \in refs} \subseteq refs THEN refs
  ELSE StructurallyReachable(h, refs \cup UNION {StructuralChildren(h, r) : r \in refs})

RECURSIVE LeafIssues(_)
\* the issues that are no invalid_union, of the alternatives of every
\* invalid_union at any depth, in engine order
LeafIssues(issues) ==
  Concat([i \in 1..Len(issues) |->
            IF issues[i].code = "invalid_union"
              THEN Concat([k \in 1..Len(issues[i].unionErrors) |->
                             LeafIssues(issues[i].unionErrors[k])])
              ELSE <<issues[i]>>])

\* the issues handleIssue is called on: the alternatives' issues of an
\* invalid_union, else the issue
HandledIssues(issues) ==
  Concat([i \in 1..Len(issues) |->
            IF issues[i].code = "invalid_union" THEN Concat(issues[i].unionErrors)
            ELSE <<issues[i]>>])

RemoveThisField == <<"R","e","m","o","v","e"," ","t","h","i","s"," ","f","i","e","l","d"," ","-"," ","i","t"," ","i","s"," ","n","o","t"," ","a","l","l","o","w","e","d"," ","b","y"," ","t","h","e"," ","s","c","h","e","m","a">>

\* the suggestion the kind of a native issue calls for
SuggestionOfKind(issue) ==
  IF issue.code = "invalid_type" /\ issue.received = "undefined"
    THEN <<"A","d","d"," ","m","i","s","s","i","n","g"," ","f","i","e","l","d",":"," ","\"">> \o LastSegment(issue.path) \o <<"\"">>
  ELSE IF issue.code = "unrecognized_keys" THEN RemoveThisField
  ELSE IF issue.code = "invalid_type"
    THEN <<"E","x","p","e","c","t","e","d"," ","t","y","p","e"," ","'">> \o TypeChars(issue.expected) \o <<"'",","," ","g","o","t"," ","'">>
           \o TypeChars(issue.received) \o <<"'">>
  ELSE <<>>

\* the category of an issue: the first match on its lower-cased message
CategoryOf(issue) ==
  IF Includes(ToLowerCase(issue.message), <<"m","i","s","s","i","n","g">>) THEN "missing"
  ELSE IF Includes(ToLowerCase(issue.message), <<"r","e","q","u","i","r","e","d">>) THEN "missing"
  ELSE IF Includes(ToLowerCase(issue.message), <<"u","n","e","x","p","e","c","t","e","d">>) THEN "unexpected"
  ELSE IF Includes(ToLowerCase(issue.message), <<"i","n","v","a","l","i","d">>) THEN "invalid"
  ELSE "other"

HeaderOf(category) ==
  CASE category = "missing" -> <<"\n","M","i","s","s","i","n","g"," ","R","e","q","u","i","r","e","d"," ","F","i","e","l","d","s",":">>
    [] category = "invalid" -> <<"\n","I","n","v","a","l","i","d"," ","V","a","l","u","e","s",":">>
    [] category = "unexpected" -> <<"\n","U","n","e","x","p","e","c","t","e","d"," ","F","i","e","l","d","s",":">>
    [] category = "other" -> <<"\n","O","t","h","e","r"," ","I","s","s","u","e","s",":">>

\* the lines of a category: nothing for an empty one, else the header and,
\* for each of its issues in input order, the message line and the
\* suggestion line if the issue has a suggestion
CategoryLines(issues, category) ==
  IF \A i \in 1..Len(issues) : CategoryOf(issues[i]) # category THEN <<>>
  ELSE <<HeaderOf(category)>>
         \o Concat([i \in 1..Len(issues) |->
              IF CategoryOf(issues[i]) # category THEN <<>>
              ELSE IF issues[i].suggestion = <<>> THEN << <<" "," "," ","-"," ">> \o issues[i].message >>
              ELSE << <<" "," "," ","-"," ">> \o issues[i].message,
                      <<" "," "," "," "," "," ">> \o <<Bulb, " ">> \o issues[i].suggestion >>])

\* C1: every ValidationResult a call returns has errors empty if and only
\* if valid is true, and data defined if and only if valid is true, on
\* every return path.
ResultWellFormed ==
  pc = "returned" =>
    /\ (result.errors = <<>>) <=> result.valid
    /\ (result.data # UndefinedValue) <=> result.valid

\* C1: validateJson has returned a valid result, with the data and no errors
ValidResultReturned ==
  /\ pc = "returned" /\ entry = "validateJson" /\ "Validating" \in stages
  /\ result.valid /\ result.data = data /\ data # UndefinedValue /\ result.errors = <<>>

\* C2: no exception leaves validateJson or validateJsonFile: whichever
\* stage fails, the call returns a result with valid = false; a failed file
\* read returns exactly one issue, "File error: ...", with jsonPointer ""
\* and line = column = 0.
NeverRaises ==
  /\ pc # "raised"
  /\ pc = "returned" /\ (raised # "none" \/ ~jsonText.isString) => ~result.valid
  /\ pc = "returned" /\ raised = "readFileSync" =>
       /\ Len(result.errors) = 1
       /\ IsPrefix(<<"F","i","l","e"," ","e","r","r","o","r",":"," ">>, result.errors[1].message)
       /\ result.errors[1].jsonPointer = <<>>
       /\ result.errors[1].line = 0 /\ result.errors[1].column = 0

\* C2: validateJsonFile has returned after the file read failed
FileReadFailureReturned ==
  /\ pc = "returned" /\ entry = "validateJsonFile" /\ raised = "readFileSync"
  /\ ~file.exists /\ ~result.valid

\* C3: when the parser reports a syntax error or yields no tree, the stages
\* BuildingIndex, Strictifying and Validating are not entered, and the
\* result has exactly one issue per reported error, in the parser's order:
\* "Syntax error: <code>", jsonPointer "", line and column resolved from
\* the error's offset; no "Validation error: " issue is present.
SyntaxFailureStops ==
  ParseDone /\ (Len(errors) > 0 \/ tree = Undefined) =>
    /\ stages \cap {"BuildingIndex", "Strictifying", "Validating"} = {}
    /\ pc = "returned" /\ ~result.valid
    /\ Len(result.errors) = Len(errors)
    /\ \A i \in 1..Len(errors) :
         /\ result.errors[i].message = <<"S","y","n","t","a","x"," ","e","r","r","o","r",":"," ">> \o printParseErrorCode(errors[i].error)
         /\ result.errors[i].jsonPointer = <<>>
         /\ result.errors[i].line = positionFromOffset(jsonText.chars, errors[i].offset).line
         /\ result.errors[i].column = positionFromOffset(jsonText.chars, errors[i].offset).column
         /\ ~IsPrefix(<<"V","a","l","i","d","a","t","i","o","n"," ","e","r","r","o","r",":"," ">>, result.errors[i].message)

\* C3: validateJson has returned for a text with two syntax errors, the
\* second of them past the first line's first column
TwoSyntaxErrorsReturned ==
  /\ pc = "returned" /\ ParseDone /\ Len(errors) = 2 /\ tree # Undefined
  /\ Len(result.errors) = 2 /\ result.errors[2].column > 1

\* C4: a call leaves the schema passed in unchanged: every schema object
\* reachable from it has the same children and the same unknown-keys policy
\* as when the call was made, so the schema accepts the document exactly
\* when it did before.
SchemaUnchanged ==
  pc = "returned" =>
    /\ \A ref \in Reachable(heap0, {schema}) :
         /\ heap.nodes[ref] = heap0.nodes[ref]
         /\ heap0.nodes[ref].kind = "object" =>
              heap.shapes[heap0.nodes[ref].shape] = heap0.shapes[heap0.nodes[ref].shape]
    /\ IndexDone => (Accepts(heap, schema, data) <=> Accepts(heap0, schema, data))

\* C5: when an object of a syntactically valid document, at any depth, has
\* a key its governing object schema does not declare, the result is
\* invalid and has an issue that createErrorSummary puts under "Unexpected
\* Fields", whose jsonPointer is the pointer of that key, whose line and
\* column are the key's position in the text, and which suggests removal.
UnexpectedKeyReported ==
  pc = "returned" /\ IndexDone =>
    \A path \in UndeclaredKeys(heap0, schema, data, <<>>) :
      /\ ~result.valid
      /\ \E i \in 1..Len(result.errors) :
           /\ GroupOf(result.errors[i]) = "unexpected"
           /\ result.errors[i].jsonPointer = pathToPointer(path)
           /\ result.errors[i].line = KeyPosition(path).line
           /\ result.errors[i].column = KeyPosition(path).column
           /\ result.errors[i].suggestion = RemoveThisField

\* C6: union failures are flattened at every depth: the issues returned
\* are, in engine order, the issues that are no invalid_union, those of the
\* alternatives of nested invalid_union issues included; no returned issue
\* stands for an invalid_union.
UnionsFlattened ==
  SchemaRejected =>
    /\ Len(result.errors) = Len(LeafIssues(zodIssues))
    /\ \A i \in 1..Len(result.errors) :
         /\ result.errors[i].message = <<"V","a","l","i","d","a","t","i","o","n"," ","e","r","r","o","r",":"," ">> \o LeafIssues(zodIssues)[i].message
         /\ result.errors[i].jsonPointer = pathToPointer(LeafIssues(zodIssues)[i].path)

\* C7: for every node of a syntactically valid document, reached along a
\* path of decoded keys and zero-based indices, the index has an entry
\* under pathToPointer(path), and the line and column of that entry's
\* offset are those of the first character of the node's value.
PointerIndexComplete ==
  IndexDone =>
    \A path \in DocumentPaths(tree, <<>>) :
      /\ pathToPointer(path) \in DOMAIN pointerMap
      /\ positionFromOffset(jsonText.chars, pointerMap[pathToPointer(path)].offset)
           = positionFromOffset(jsonText.chars, NodeAt(tree, path).offset)

\* C8: createErrorSummary renders every issue once, under the category of
\* the first match on its lower-cased message; a header appears only for a
\* category that has issues; the categories come in the order missing,
\* invalid, unexpected, other; the issues of a category keep their input
\* order; the lines are joined by newlines; the empty list gives the empty
\* string.
SummaryRendered ==
  summary.done =>
    /\ summary.text =
         Join(CategoryLines(summary.issues, "missing") \o CategoryLines(summary.issues, "invalid")
                \o CategoryLines(summary.issues, "unexpected")
                \o CategoryLines(summary.issues, "other"), <<"\n">>)
    /\ summary.issues = <<>> => summary.text = <<>>

\* C8: a summary has been made of three issues given against the order of
\* the categories, one issue matching two categories, one with a suggestion
SummaryOfMixedIssues ==
  /\ summary.done /\ Len(summary.issues) = 3
  /\ CategoryOf(summary.issues[1]) = "other"
  /\ CategoryOf(summary.issues[2]) = "unexpected"
  /\ Includes(ToLowerCase(summary.issues[2].message), <<"i","n","v","a","l","i","d">>)
  /\ CategoryOf(summary.issues[3]) = "missing"
  /\ summary.issues[3].suggestion # <<>>
  /\ summary.text # <<>>

\* C9: the suggestion of every ValidationIssue made in the Validating stage
\* is determined by the kind of its native issue: a missing field gets
\* Add missing field: "<name>", an unrecognized key the removal suggestion,
\* a type mismatch with both type names the expected-type suggestion, any
\* other kind no suggestion, whatever its message.
SuggestionFollowsKind ==
  SchemaRejected =>
    /\ Len(result.errors) = Len(HandledIssues(zodIssues))
    /\ \A i \in 1..Len(result.errors) :
         result.errors[i].suggestion = SuggestionOfKind(HandledIssues(zodIssues)[i])

\* C10: deepStrict returns, for every schema, a schema whose unknown-keys
\* policy is closed at the root object and at every object schema reachable
\* through object fields and array elements, with the declared field names
\* of the input.
DeepStrictCloses ==
  StrictifyDone =>
    /\ ~strictSchema.threw
    /\ \A ref \in StructurallyReachable(heap, {strictSchema.ref}) :
         heap.nodes[ref].kind = "object" => heap.nodes[ref].unknownKeys = "strict"
    /\ heap0.nodes[schema].kind = "object" =>
         Declared(heap, strictSchema.ref) = Declared(heap0, schema)

====
